---- MODULE Spec2Model ----
(***************************************************************************)
(* Model of the fractive compiler (src/src/Compiler.ts): Compile's loop    *)
(* over the markdown targets, RenderFile's two tree traversals, and the    *)
(* rewriters RenderText / RenderLink / RenderImage with the tree surgery   *)
(* they perform (InsertHtmlIntoNode, RewriteLinkNode).                     *)
(*                                                                         *)
(* Strings are sequences of tokens.  A token is one character ("{", "a",  *)
(* "\\") or one indivisible piece of text the code only ever handles as a  *)
(* whole: the url escapes "%7B" / "%7D", the modifier word "inline", and   *)
(* the fixed markup the compiler emits ("<span", "></span>", ...).         *)
(* A document tree is a sequence of node records; a node is its index,     *)
(* 0 is null, node 1 is the document root.                                 *)
(***************************************************************************)
EXTENDS Integers, Sequences, FiniteSets, TLC

VARIABLES
    markdownFiles,  \* targets.markdownFiles: the parsed tree of every target
    i,              \* Compile's loop index (1-based: the file being rendered)
    errorCount,     \* Compile's errorCount
    html,           \* Compile's html: one entry per file that rendered
    rendered,       \* Compile's `rendered`: RenderFile's return value
    pc,             \* position in Compile / RenderFile
    nextInlineID,   \* Compiler.nextInlineID
    sectionCount,   \* Compiler.sectionCount
    ast,            \* RenderFile's ast
    walker,         \* RenderFile's walker: [current, entering]
    prevNode,       \* RenderFile's prevNode (consolidation pass)
    actionLog,      \* what LogAction has printed
    errorLog        \* what LogParseError has printed: [file, kind]

vars == <<markdownFiles, i, errorCount, html, rendered, pc, nextInlineID,
          sectionCount, ast, walker, prevNode, actionLog, errorLog>>

----------------------------------------------------------------------------
(* Bounds *)

MaxPieces == 3      \* pieces concatenated into one literal
MaxFiles == 2       \* markdown targets in a multi-file build

NULL == <<"null">>  \* RenderFile's null return; no rendering equals it

----------------------------------------------------------------------------
(* The commonmark tree *)

Leaf(type, literal, parent) ==
    [type |-> type, literal |-> literal, destination |-> <<>>,
     parent |-> parent, children |-> <<>>]

Container(type, destination, parent, children) ==
    [type |-> type, literal |-> <<>>, destination |-> destination,
     parent |-> parent, children |-> children]

IsContainer(type) ==
    type \in {"document", "block_quote", "list", "item", "paragraph",
              "heading", "emph", "strong", "link", "image",
              "custom_inline", "custom_block"}

IndexOf(seq, x) == CHOOSE k \in 1..Len(seq) : seq[k] = x

NextSibling(t, n) ==
    IF t[n].parent = 0 THEN 0
    ELSE LET ch == t[t[n].parent].children
             k  == IndexOf(ch, n)
         IN IF k = Len(ch) THEN 0 ELSE ch[k + 1]

PrevSibling(t, n) ==
    IF t[n].parent = 0 THEN 0
    ELSE LET ch == t[t[n].parent].children
             k  == IndexOf(ch, n)
         IN IF k = 1 THEN 0 ELSE ch[k - 1]

FirstChild(t, n) ==
    IF t[n].children = <<>> THEN 0 ELSE t[n].children[1]

RemoveAt(seq, k) == SubSeq(seq, 1, k - 1) \o SubSeq(seq, k + 1, Len(seq))

InsertAt(seq, k, x) == SubSeq(seq, 1, k - 1) \o <<x>> \o SubSeq(seq, k, Len(seq))

\* node.unlink(): the node leaves its parent's child list and keeps its own
\* children.
Unlink(t, n) ==
    IF t[n].parent = 0 THEN t
    ELSE LET p == t[n].parent
             k == IndexOf(t[p].children, n)
         IN [t EXCEPT ![p].children = RemoveAt(@, k), ![n].parent = 0]

\* n.insertAfter(s)
InsertAfter(t, n, s) ==
    LET u == Unlink(t, s)
        p == u[n].parent
        k == IndexOf(u[p].children, n)
    IN [u EXCEPT ![p].children = InsertAt(@, k + 1, s), ![s].parent = p]

\* n.insertBefore(s)
InsertBefore(t, n, s) ==
    LET u == Unlink(t, s)
        p == u[n].parent
        k == IndexOf(u[p].children, n)
    IN [u EXCEPT ![p].children = InsertAt(@, k, s), ![s].parent = p]

\* p.appendChild(c)
AppendChild(t, p, c) ==
    LET u == Unlink(t, c)
    IN [u EXCEPT ![p].children = Append(@, c), ![c].parent = p]

\* new commonmark.Node(type) with its literal set: the new node is Len(t)+1
NewNode(t, type, literal) == Append(t, Leaf(type, literal, 0))

\* ast.walker()
NewWalker == [current |-> 1, entering |-> TRUE]

\* walker.next(): the event returned (node = 0 when it returns null) and the
\* walker advanced past it.
WalkerNext(t, w) ==
    LET cur == w.current IN
    IF cur = 0 THEN [node |-> 0, entering |-> FALSE, walker |-> w]
    ELSE LET nw ==
                 IF w.entering /\ IsContainer(t[cur].type)
                 THEN IF FirstChild(t, cur) # 0
                      THEN [current |-> FirstChild(t, cur), entering |-> TRUE]
                      ELSE [current |-> cur, entering |-> FALSE]
                 ELSE IF cur = 1
                 THEN [current |-> 0, entering |-> FALSE]
                 ELSE IF NextSibling(t, cur) = 0
                 THEN [current |-> t[cur].parent, entering |-> FALSE]
                 ELSE [current |-> NextSibling(t, cur), entering |-> TRUE]
         IN [node |-> cur, entering |-> w.entering, walker |-> nw]

\* walker.resumeAt(node): entering is left undefined by every caller
ResumeAt(n) == [current |-> n, entering |-> FALSE]

\* markdownWriter.render(node): the literals of the subtree in document
\* order (the renderer's own block tags and entity escaping are left out).
RECURSIVE RenderNode(_, _)
RECURSIVE RenderChildren(_, _, _)
RenderNode(t, n) ==
    IF IsContainer(t[n].type) THEN RenderChildren(t, t[n].children, 1)
    ELSE t[n].literal
RenderChildren(t, ch, k) ==
    IF k > Len(ch) THEN <<>>
    ELSE RenderNode(t, ch[k]) \o RenderChildren(t, ch, k + 1)

----------------------------------------------------------------------------
(* Inputs: the trees markdownReader.parse can hand to RenderFile *)

RECURSIVE Concats(_, _)
Concats(pieces, n) ==
    IF n = 0 THEN {<<>>}
    ELSE LET shorter == Concats(pieces, n - 1)
         IN shorter \cup {l \o p : l \in shorter, p \in pieces}

Pieces ==
    { <<"a">>, <<"{">>, <<"}">>, <<"\\">>, <<"\\", "{">>, <<"\\", "}">>,
      <<"{", "@">>, <<"{", "$", "x", "}">>, <<"{", "{", "A", "}", "}">> }

Literals == Concats(Pieces, MaxPieces)

\* The literals of a secondary leaf: a sibling, a link label, an alt text
SideLiterals ==
    {<<>>, <<"a">>, <<"{", "@", "b", "}">>, <<"{", "@">>, <<"\\", "{">>}

\* Link and image destinations, as the parser stores them ("{" and "}" come
\* out of the parser percent-encoded; both spellings are drawn).
Destinations ==
    { op \o sg \o nm \o md \o cl :
        op \in {<<>>, <<"{">>, <<"%7B">>},
        sg \in {<<>>, <<"@">>, <<"#">>, <<"$">>, <<"x">>},
        nm \in {<<>>, <<"b", "c">>},
        md \in {<<>>, <<":", "inline">>, <<":", "y">>},
        cl \in {<<>>, <<"}">>, <<"%7D">>} }

Doc(body) == <<Container("document", <<>>, 0, <<2>>)>> \o body

\* document > paragraph > leaf
DocLeaf(type, L) ==
    Doc(<<Container("paragraph", <<>>, 1, <<3>>), Leaf(type, L, 2)>>)

\* document > code_block
DocCodeBlock(L) == <<Container("document", <<>>, 0, <<2>>), Leaf("code_block", L, 1)>>

\* document > block_quote > paragraph > text
DocQuoted(L) ==
    Doc(<<Container("block_quote", <<>>, 1, <<3>>),
          Container("paragraph", <<>>, 2, <<4>>), Leaf("text", L, 3)>>)

\* document > paragraph > (leaf, leaf)
DocPair(ta, La, tb, Lb) ==
    Doc(<<Container("paragraph", <<>>, 1, <<3, 4>>), Leaf(ta, La, 2), Leaf(tb, Lb, 2)>>)

\* document > (paragraph > text, paragraph > text)
DocTwoParagraphs(La, Lb) ==
    <<Container("document", <<>>, 0, <<2, 4>>),
      Container("paragraph", <<>>, 1, <<3>>), Leaf("text", La, 2),
      Container("paragraph", <<>>, 1, <<5>>), Leaf("text", Lb, 4)>>

\* document > paragraph > (text, link|image > text, text)
DocInline(type, D, La, Lb, Lc) ==
    Doc(<<Container("paragraph", <<>>, 1, <<3, 4, 6>>), Leaf("text", La, 2),
          Container(type, D, 2, <<5>>), Leaf("text", Lb, 4), Leaf("text", Lc, 2)>>)

\* document > paragraph > link|image > text
DocTarget(type, D, L) ==
    Doc(<<Container("paragraph", <<>>, 1, <<3>>), Container(type, D, 2, <<4>>),
          Leaf("text", L, 3)>>)

\* document > paragraph > image > (no alt | emph > text)
DocImageNoAlt(D) ==
    Doc(<<Container("paragraph", <<>>, 1, <<3>>), Container("image", D, 2, <<>>)>>)
DocImageEmph(D, L) ==
    Doc(<<Container("paragraph", <<>>, 1, <<3>>), Container("image", D, 2, <<4>>),
          Container("emph", <<>>, 3, <<5>>), Leaf("text", L, 4)>>)

\* document > paragraph > (link > text, link > text)
DocTwoLinks(Da, Db) ==
    Doc(<<Container("paragraph", <<>>, 1, <<3, 5>>),
          Container("link", Da, 2, <<4>>), Leaf("text", <<"a">>, 3),
          Container("link", Db, 2, <<6>>), Leaf("text", <<"a">>, 5)>>)

\* document > (paragraph > (text, text, text, leaf, text, text), paragraph > text):
\* a text run the parser has split into fragments
DocRun(La, Lb, Lc, type, Ld) ==
    <<Container("document", <<>>, 0, <<2, 9>>),
      Container("paragraph", <<>>, 1, <<3, 4, 5, 6, 7, 8>>),
      Leaf("text", La, 2), Leaf("text", Lb, 2), Leaf("text", Lc, 2),
      Leaf(type, Ld, 2), Leaf("text", <<"a">>, 2), Leaf("text", <<"}">>, 2),
      Container("paragraph", <<>>, 1, <<10>>), Leaf("text", <<"a">>, 9)>>

SectionLiterals == {<<"{", "{", "A", "}", "}">>, <<"{", "{", "B", "}", "}">>, <<"a">>}

Docs ==
    {DocLeaf("text", L) : L \in Literals}
    \cup {DocLeaf("code", L) : L \in Concats(Pieces, MaxPieces - 1)}
    \cup {DocCodeBlock(L) : L \in Concats(Pieces, MaxPieces - 1)}
    \cup {DocQuoted(L) : L \in Concats(Pieces, MaxPieces - 1)}
    \cup {DocPair(ta, La, tb, Lb) :
            ta \in {"text", "code"}, tb \in {"text", "code"},
            La \in Concats(Pieces, MaxPieces - 2) \cup SectionLiterals,
            Lb \in SideLiterals}
    \cup {DocTwoParagraphs(La, Lb) : La \in SectionLiterals, Lb \in SectionLiterals}
    \cup {DocTarget(type, D, L) :
            type \in {"link", "image"}, D \in Destinations, L \in SideLiterals}
    \cup {DocInline(type, D, La, <<"a">>, Lc) :
            type \in {"link", "image"},
            D \in {<<"%7B", "@", "b", "%7D">>, <<"%7B", "#", "b", "%7D">>, <<"u">>},
            La \in SideLiterals, Lc \in SideLiterals}
    \cup {DocImageNoAlt(D) : D \in Destinations}
    \cup {DocImageEmph(D, <<"a">>) :
            D \in {<<"%7B", "#", "b", "%7D">>, <<"u">>, <<"%7B", "@", "b", "%7D">>}}
    \cup {DocRun(La, Lb, Lc, type, Ld) :
            La \in {<<"a">>, <<"{">>}, Lb \in {<<>>, <<"@", "b">>},
            Lc \in {<<"a">>, <<"}">>}, type \in {"text", "code"},
            Ld \in {<<"a">>, <<"{", "$">>}}

\* The files of a multi-file build
BuildDocs ==
    { DocLeaf("text", <<"a">>),
      DocLeaf("text", <<"{", "@">>),
      DocTwoParagraphs(<<"{", "{", "A", "}", "}">>, <<"{", "{", "B", "}", "}">>),
      DocTwoLinks(<<"%7B", "#", "b", ":", "inline", "%7D">>,
                  <<"%7B", "@", "b", ":", "inline", "%7D">>),
      DocTwoLinks(<<"%7B", "@", "b", ":", "inline", "%7D">>, <<"%7B", "$", "b", "%7D">>) }

RECURSIVE Batches(_)
Batches(n) ==
    IF n = 0 THEN {<<>>}
    ELSE LET shorter == Batches(n - 1)
         IN shorter \cup {Append(b, d) : b \in shorter, d \in BuildDocs}

Init ==
    /\ markdownFiles \in {<<d>> : d \in Docs} \cup Batches(MaxFiles)
    /\ i = 1
    /\ errorCount = 0
    /\ html = <<>>
    /\ rendered = NULL
    /\ pc = "compile"
    /\ nextInlineID = 0
    /\ sectionCount = 0
    /\ ast = <<>>
    /\ walker = NewWalker
    /\ prevNode = 0
    /\ actionLog = <<>>
    /\ errorLog = <<>>

----------------------------------------------------------------------------
(* Strings *)

\* str[k] for a 0-based k; "undefined" past the end
CharAt(str, k) == IF k >= 0 /\ k < Len(str) THEN str[k + 1] ELSE "undefined"

\* str.substring(a, b) for 0 <= a <= b; b is clamped to the length
Substring(str, a, b) ==
    SubSeq(str, a + 1, IF b > Len(str) THEN Len(str) ELSE b)

\* str.substring(a)
SubstringFrom(str, a) == SubSeq(str, a + 1, Len(str))

\* str.replace(from, to) with a string pattern: the first occurrence only
ReplaceFirst(str, from, to) ==
    IF \E k \in 1..Len(str) : str[k] = from
    THEN LET k == CHOOSE k \in 1..Len(str) :
                      str[k] = from /\ \A m \in 1..(k - 1) : str[m] # from
         IN [str EXCEPT ![k] = to]
    ELSE str

\* str.split(":")
RECURSIVE Split(_, _)
Split(str, cur) ==
    IF str = <<>> THEN <<cur>>
    ELSE IF Head(str) = ":" THEN <<cur>> \o Split(Tail(str), <<>>)
         ELSE Split(Tail(str), Append(cur, Head(str)))

\* str.split('\\').join('')
StripBackslashes(str) == SelectSeq(str, LAMBDA c : c # "\\")

\* ` data-${attr}="${value}"`
DataAttr(attr, value) == <<" data-", attr, "=\"">> \o value \o <<"\"">>

----------------------------------------------------------------------------
(* InsertHtmlIntoNode *)

PreContent(literal, startIndex) == Substring(literal, 0, startIndex)

\* PostContent starting one character late
PostContent_SkipsOne(literal, endIndex) == SubstringFrom(literal, endIndex + 1)

PostContent(literal, endIndex) == SubstringFrom(literal, endIndex)

SpanMarkup(type, attrs) ==
    CASE type = "code" -> <<"<code>", "<span">> \o attrs \o <<"></span>", "</code>">>
      [] type = "code_block" ->
             <<"<pre><code>", "<span">> \o attrs \o <<"></span>", "</code></pre>">>
      [] OTHER -> <<"<span">> \o attrs \o <<"></span>">>

\* Returns the tree and the html_inline node that was inserted.
InsertHtmlIntoNode(t, rootNode, startIndex, endIndex, attr, value) ==
    LET literal     == t[rootNode].literal
        preContent  == PreContent(literal, startIndex)
        postContent == PostContent(literal, endIndex)
        htmlNode    == Len(t) + 1
        t1 == [t EXCEPT ![rootNode].literal = preContent]
        t2 == NewNode(t1, "html_inline", SpanMarkup(t[rootNode].type, DataAttr(attr, value)))
        t3 == InsertAfter(t2, rootNode, htmlNode)
        t4 == IF preContent = <<>> THEN Unlink(t3, rootNode) ELSE t3
        t5 == IF Len(postContent) > 0
              THEN InsertAfter(NewNode(t4, t[rootNode].type, postContent),
                               htmlNode, Len(t4) + 1)
              ELSE t4
    IN [ast |-> t5, htmlNode |-> htmlNode]

----------------------------------------------------------------------------
(* RenderText *)

\* The outer loop of RenderText from index k: the index of the first "{"
\* that is not skipped as an escaped character, or -1.
RECURSIVE ScanOpen(_, _)
ScanOpen(literal, k) ==
    IF k >= Len(literal) THEN -1
    ELSE IF CharAt(literal, k) = "\\" THEN ScanOpen(literal, k + 2)
    ELSE IF CharAt(literal, k) = "{" THEN k
    ELSE ScanOpen(literal, k + 1)

\* The inner loop of RenderText from index j with braceCount open braces:
\* the index of the "}" that brings braceCount to 0, or -1.
RECURSIVE ScanClose(_, _, _)
ScanClose(literal, j, braceCount) ==
    IF j >= Len(literal) THEN -1
    ELSE IF CharAt(literal, j) = "{" THEN ScanClose(literal, j + 1, braceCount + 1)
    ELSE IF CharAt(literal, j) = "}"
         THEN IF braceCount - 1 = 0 THEN j
              ELSE ScanClose(literal, j + 1, braceCount - 1)
    ELSE ScanClose(literal, j + 1, braceCount)

\* The section tag: a closing tag first unless this is the file's first one
SectionMarkup(count, id) ==
    (IF count > 0 THEN <<"</div>\n">> ELSE <<>>)
    \o <<"<div id=\"">> \o id \o <<"\" class=\"section\" hidden=\"true\">">>

\* data-expand-macro's value for a macro token
ExpandMacroValue(macro) == Substring(macro, 1, Len(macro) - 1)

Failure(t, w, kind) ==
    [ok |-> FALSE, ast |-> t, walker |-> w, error |-> kind, sections |-> 0, inlines |-> 0]

Success(t, w, sections, inlines) ==
    [ok |-> TRUE, ast |-> t, walker |-> w, error |-> "", sections |-> sections,
     inlines |-> inlines]

\* The section-begin case of RenderText's switch
BeginSection(t, w, node, macro, count) ==
    LET parent == t[node].parent
        insertedNode == Len(t) + 1
        t1 == NewNode(t, "html_inline",
                      SectionMarkup(count, Substring(macro, 2, Len(macro) - 2)))
    IN IF parent = 0 THEN Failure(t, w, "NoParent")
       ELSE IF PrevSibling(t, node) # 0 THEN Failure(t, w, "InvalidSectionPlacement")
       ELSE IF t[parent].type = "paragraph"
       THEN LET t2 == Unlink(InsertAfter(t1, parent, insertedNode), parent)
            IN Success([t2 EXCEPT ![node].literal = StripBackslashes(@)],
                       ResumeAt(insertedNode), 1, 0)
       ELSE Failure(t, w, "InvalidSectionPlacement")

\* MacroEnd returning the macro's start: the remainder keeps the macro
MacroEnd_AtStart(start, macro) == start

\* The end index RenderText passes to InsertHtmlIntoNode: i + macro.length
MacroEnd(start, macro) == start + Len(macro)

\* RenderText(walker, event, filepath); w is the walker after walker.next()
RenderText(t, w, node, count) ==
    LET literal == t[node].literal
        start   == ScanOpen(literal, 0)
    IN IF start = -1
       THEN Success([t EXCEPT ![node].literal = StripBackslashes(@)], w, 0, 0)
       ELSE LET close == ScanClose(literal, start + 1, 1)
                macro == Substring(literal, start, close + 1)
            IN IF close = -1 THEN Failure(t, w, "UnterminatedMacro")
               ELSE IF CharAt(macro, 1) = "{" THEN BeginSection(t, w, node, macro, count)
               ELSE IF CharAt(macro, 1) \in {"@", "#", "$"}
               THEN LET ins == InsertHtmlIntoNode(t, node, start, MacroEnd(start, macro),
                                                  "expand-macro", ExpandMacroValue(macro))
                    IN Success([ins.ast EXCEPT ![node].literal = StripBackslashes(@)],
                               ResumeAt(ins.htmlNode), 0, 0)
               ELSE Failure(t, w, "UnrecognizedMacro")

----------------------------------------------------------------------------
(* RenderLink, RewriteLinkNode *)

\* url.replace("%7B", "{").replace("%7D", "}")
DecodeBraces(destination) ==
    ReplaceFirst(ReplaceFirst(destination, "%7B", "{"), "%7D", "}")

\* GetLinkText(node): the rendered children of the link
GetLinkText(t, node) == RenderChildren(t, t[node].children, 1)

NoId == <<>>    \* RewriteLinkNode's id === null

InlineId(n) == <<"_inline-", ToString(n)>>

AnchorMarkup(attrs, linkText, id) ==
    IF id = NoId
    THEN <<"<a", " href=\"#\"">> \o attrs \o <<">">> \o linkText \o <<"</a>">>
    ELSE <<"<a", " href=\"#\"", " id=\"">> \o id \o <<"\"">> \o attrs \o <<">">>
         \o linkText \o <<"</a>">>

\* RewriteLinkNode(node, dataAttrs, linkText, id): the tree with the link
\* replaced by the new html_inline node (node.type is "link" at every call)
RewriteLinkNode(t, node, attr, value, linkText, id) ==
    LET newNode == Len(t) + 1
        t1 == NewNode(t, "html_inline", AnchorMarkup(DataAttr(attr, value), linkText, id))
    IN Unlink(InsertBefore(t1, node, newNode), node)

\* ReplaceWithValue with the sigil stripped, as for the other link macros
ReplaceWithValue_DropsSigil(identifier) == SubstringFrom(identifier, 1)

\* data-replace-with's value for the first token of an :inline destination
ReplaceWithValue(identifier) == identifier

\* LinkAttr with the "$" case falling into the section case
LinkAttr_VariableAsSection(sigil) ==
    CASE sigil \in {"@", "$"} -> "goto-section"
      [] sigil = "#" -> "call-function"
      [] OTHER -> "UnrecognizedMacro"

\* The attribute of a non-inline link macro, by the identifier's sigil
LinkAttr(sigil) ==
    CASE sigil = "@" -> "goto-section"
      [] sigil = "#" -> "call-function"
      [] sigil = "$" -> "InvalidLinkMacro"
      [] OTHER -> "UnrecognizedMacro"

\* RenderLink(walker, event, filepath); nextId is nextInlineID at the call
RenderLink(t, w, node, entering, nextId) ==
    LET url == DecodeBraces(t[node].destination) IN
    IF entering THEN Success(t, w, 0, 0)
    ELSE IF CharAt(url, 0) # "{" THEN Success(t, w, 0, 0)
    ELSE IF CharAt(url, Len(url) - 1) # "}" THEN Failure(t, w, "UnterminatedMacro")
    ELSE LET tokens     == Split(Substring(url, 1, Len(url) - 1), <<>>)
             identifier == tokens[1]
             modifier   == IF Len(tokens) > 1 THEN tokens[2] ELSE <<>>
         IN IF modifier = <<"inline">>
            THEN Success(RewriteLinkNode(t, node, "replace-with",
                                         ReplaceWithValue(identifier),
                                         GetLinkText(t, node), InlineId(nextId)),
                         w, 0, 1)
            ELSE IF LinkAttr(CharAt(identifier, 0)) \in {"goto-section", "call-function"}
            THEN Success(RewriteLinkNode(t, node, LinkAttr(CharAt(identifier, 0)),
                                         SubstringFrom(identifier, 1),
                                         GetLinkText(t, node), NoId),
                         w, 0, 0)
            ELSE Failure(t, w, LinkAttr(CharAt(identifier, 0)))

----------------------------------------------------------------------------
(* RenderImage *)

PlainImageMarkup(url, alt) ==
    <<"<img", " src=\"">> \o url \o <<"\"", " alt=\"">> \o alt
    \o <<"\"", " title=\"">> \o alt \o <<"\"", ">">>

MacroImageMarkup(value, alt) ==
    <<"<img">> \o DataAttr("image-source-macro", value)
    \o <<" src=\"", "#", "\"", " alt=\"">> \o alt \o <<"\"", " title=\"">> \o alt
    \o <<"\"", ">">>

\* ImageMacroValue with the sigil stripped
ImageMacroValue_DropsSigil(url) == Substring(url, 2, Len(url) - 1)

\* data-image-source-macro's value for a macro url
ImageMacroValue(url) == Substring(url, 1, Len(url) - 1)

\* ImageMacroCase with the "@" case falling into the rewriting case
ImageMacroCase_AcceptsSection(sigil) ==
    CASE sigil \in {"@", "#", "$"} -> "rewrite"
      [] OTHER -> "UnknownMacro"

\* What the switch on url[1] does: "rewrite" or the error it reports
ImageMacroCase(sigil) ==
    CASE sigil = "@" -> "SectionAsImageSource"
      [] sigil \in {"#", "$"} -> "rewrite"
      [] OTHER -> "UnknownMacro"

\* The image replaced by a new html_inline node, the walker resumed at it
ReplaceImage(t, node, markup) ==
    LET newNode == Len(t) + 1
        t1 == NewNode(t, "html_inline", markup)
    IN Success(Unlink(InsertBefore(t1, node, newNode), node), ResumeAt(newNode), 0, 0)

\* RenderImage(walker, event, filepath)
RenderImage(t, w, node) ==
    LET first  == FirstChild(t, node)
        hasAlt == first # 0 /\ t[first].type = "text"
        alt    == IF hasAlt THEN t[first].literal ELSE <<>>
        t1     == IF hasAlt THEN Unlink(t, first) ELSE t
        url    == DecodeBraces(t[node].destination)
    IN IF CharAt(url, 0) # "{" THEN ReplaceImage(t1, node, PlainImageMarkup(url, alt))
       ELSE IF CharAt(url, Len(url) - 1) # "}" THEN Failure(t1, w, "UnterminatedMacro")
       ELSE IF ImageMacroCase(CharAt(url, 1)) = "rewrite"
       THEN ReplaceImage(t1, node, MacroImageMarkup(ImageMacroValue(url), alt))
       ELSE Failure(t1, w, ImageMacroCase(CharAt(url, 1)))

----------------------------------------------------------------------------
(* RenderFile *)

\* BeginFile resetting nextInlineID for each file, as sectionCount is
BeginFile_ResetsInlineID ==
    /\ pc = "compile"
    /\ i <= Len(markdownFiles)
    /\ actionLog' = Append(actionLog, <<"render", ToString(i)>>)
    /\ ast' = markdownFiles[i]
    /\ walker' = NewWalker
    /\ prevNode' = 0
    /\ nextInlineID' = 0
    /\ pc' = "consolidate"
    /\ UNCHANGED <<markdownFiles, i, errorCount, html, rendered, sectionCount, errorLog>>

\* The call RenderFile(...) of Compile's loop, up to the first walker
BeginFile ==
    /\ pc = "compile"
    /\ i <= Len(markdownFiles)
    /\ actionLog' = Append(actionLog, <<"render", ToString(i)>>)
    /\ ast' = markdownFiles[i]
    /\ walker' = NewWalker
    /\ prevNode' = 0
    /\ pc' = "consolidate"
    /\ UNCHANGED <<markdownFiles, i, errorCount, html, rendered, nextInlineID,
                   sectionCount, errorLog>>

\* Consolidate taking the merged node as the next prevNode
Consolidate_TracksMerged ==
    /\ pc = "consolidate"
    /\ LET ev == WalkerNext(ast, walker) IN
       /\ ev.node # 0
       /\ walker' = ev.walker
       /\ prevNode' = ev.node
       /\ IF ast[ev.node].type = "text" /\ prevNode # 0 /\ ast[prevNode].type = "text"
          THEN ast' = Unlink([ast EXCEPT ![prevNode].literal =
                                             @ \o ast[ev.node].literal], ev.node)
          ELSE ast' = ast
    /\ UNCHANGED <<markdownFiles, i, errorCount, html, rendered, pc, nextInlineID,
                   sectionCount, actionLog, errorLog>>

\* One iteration of the loop that consolidates contiguous text nodes
Consolidate ==
    /\ pc = "consolidate"
    /\ LET ev == WalkerNext(ast, walker) IN
       /\ ev.node # 0
       /\ walker' = ev.walker
       /\ IF ast[ev.node].type = "text" /\ prevNode # 0 /\ ast[prevNode].type = "text"
          THEN /\ ast' = Unlink([ast EXCEPT ![prevNode].literal =
                                                @ \o ast[ev.node].literal], ev.node)
               /\ prevNode' = prevNode
          ELSE /\ ast' = ast
               /\ prevNode' = ev.node
    /\ UNCHANGED <<markdownFiles, i, errorCount, html, rendered, pc, nextInlineID,
                   sectionCount, actionLog, errorLog>>

\* The end of the consolidation loop: sectionCount = 0 and a new walker
BeginRewrite ==
    /\ pc = "consolidate"
    /\ WalkerNext(ast, walker).node = 0
    /\ sectionCount' = 0
    /\ walker' = NewWalker
    /\ pc' = "rewrite"
    /\ UNCHANGED <<markdownFiles, i, errorCount, html, rendered, nextInlineID, ast,
                   prevNode, actionLog, errorLog>>

\* The rewriter the switch on node.type calls for an event
Dispatch(t, ev, count, nextId) ==
    CASE t[ev.node].type = "link" -> RenderLink(t, ev.walker, ev.node, ev.entering, nextId)
      [] t[ev.node].type \in {"text", "code", "code_block"} ->
             RenderText(t, ev.walker, ev.node, count)
      [] t[ev.node].type = "image" -> RenderImage(t, ev.walker, ev.node)
      [] OTHER -> Success(t, ev.walker, 0, 0)

\* One iteration of the macro traversal
Rewrite ==
    /\ pc = "rewrite"
    /\ LET ev == WalkerNext(ast, walker) IN
       /\ ev.node # 0
       /\ LET r == Dispatch(ast, ev, sectionCount, nextInlineID) IN
          /\ ast' = r.ast
          /\ walker' = r.walker
          /\ sectionCount' = sectionCount + r.sections
          /\ nextInlineID' = nextInlineID + r.inlines
          /\ IF r.ok
             THEN UNCHANGED <<pc, rendered, errorLog>>
             ELSE /\ pc' = "returned"
                  /\ rendered' = NULL
                  /\ errorLog' = Append(errorLog, [file |-> i, kind |-> r.error])
    /\ UNCHANGED <<markdownFiles, i, errorCount, html, prevNode, actionLog>>

\* The end of the traversal: close the final section div and render
Finish ==
    /\ pc = "rewrite"
    /\ WalkerNext(ast, walker).node = 0
    /\ LET closingNode == Len(ast) + 1
           t1 == AppendChild(NewNode(ast, "html_inline", <<"</div>">>), 1, closingNode)
       IN /\ ast' = t1
          /\ rendered' = RenderNode(t1, 1)
    /\ walker' = WalkerNext(ast, NewWalker).walker
    /\ pc' = "returned"
    /\ UNCHANGED <<markdownFiles, i, errorCount, html, nextInlineID, sectionCount,
                   prevNode, actionLog, errorLog>>

----------------------------------------------------------------------------
(* Compile *)

\* Collect leaving the loop at the first file that fails
Collect_StopsAtFailure ==
    /\ pc = "returned"
    /\ IF rendered = NULL
       THEN /\ errorCount' = errorCount + 1
            /\ html' = html
            /\ i' = Len(markdownFiles) + 1
       ELSE /\ errorCount' = errorCount
            /\ html' = Append(html, [file |-> i, rendered |-> rendered])
            /\ i' = i + 1
    /\ pc' = "compile"
    /\ UNCHANGED <<markdownFiles, rendered, nextInlineID, sectionCount, ast, walker,
                   prevNode, actionLog, errorLog>>

\* The rest of the loop body once RenderFile has returned
Collect ==
    /\ pc = "returned"
    /\ IF rendered = NULL
       THEN /\ errorCount' = errorCount + 1
            /\ html' = html
       ELSE /\ errorCount' = errorCount
            /\ html' = Append(html, [file |-> i, rendered |-> rendered])
    /\ i' = i + 1
    /\ pc' = "compile"
    /\ UNCHANGED <<markdownFiles, rendered, nextInlineID, sectionCount, ast, walker,
                   prevNode, actionLog, errorLog>>

\* if(errorCount > 0) { process.exit(1); }
Exit ==
    /\ pc = "compile"
    /\ i > Len(markdownFiles)
    /\ errorCount > 0
    /\ pc' = "exit"
    /\ UNCHANGED <<markdownFiles, i, errorCount, html, rendered, nextInlineID,
                   sectionCount, ast, walker, prevNode, actionLog, errorLog>>

\* Import all the Javascript files, apply the template
Import ==
    /\ pc = "compile"
    /\ i > Len(markdownFiles)
    /\ ~(errorCount > 0)
    /\ actionLog' = Append(actionLog, <<"import">>)
    /\ pc' = "assets"
    /\ UNCHANGED <<markdownFiles, i, errorCount, html, rendered, nextInlineID,
                   sectionCount, ast, walker, prevNode, errorLog>>

\* Copy all the assets
CopyAssets ==
    /\ pc = "assets"
    /\ actionLog' = Append(actionLog, <<"copy">>)
    /\ pc' = "output"
    /\ UNCHANGED <<markdownFiles, i, errorCount, html, rendered, nextInlineID,
                   sectionCount, ast, walker, prevNode, errorLog>>

\* Write the final index.html
WriteIndex ==
    /\ pc = "output"
    /\ actionLog' = Append(actionLog, <<"output">>)
    /\ pc' = "done"
    /\ UNCHANGED <<markdownFiles, i, errorCount, html, rendered, nextInlineID,
                   sectionCount, ast, walker, prevNode, errorLog>>

Next ==
    \/ BeginFile
    \/ Consolidate
    \/ BeginRewrite
    \/ Rewrite
    \/ Finish
    \/ Collect
    \/ Exit
    \/ Import
    \/ CopyAssets
    \/ WriteIndex

Spec == Init /\ [][Next]_vars

\* The files of the builds whose termination is checked: leaves of text,
\* references and a section declaration, text around a link or an image, and
\* a fragmented paragraph
LivePieces == {<<"a">>, <<"{", "$", "x", "}">>, <<"{", "@">>, <<"{", "{", "A", "}", "}">>}

LiveDocs ==
    {DocLeaf(type, L) : type \in {"text", "code"}, L \in Concats(LivePieces, MaxPieces)}
    \cup {DocInline(type, D, La, <<"a">>, Lc) :
            type \in {"link", "image"},
            D \in {<<"%7B", "#", "b", "%7D">>, <<"%7B", "$", "b", "%7D">>, <<"u">>},
            La \in {<<"a">>, <<"{", "@", "b", "}">>}, Lc \in {<<>>, <<"{", "@", "b", "}">>}}
    \cup {DocRun(<<"{">>, <<"@", "b">>, Lc, "code", <<"{", "$">>) : Lc \in {<<"a">>, <<"}">>}}

LiveInit ==
    /\ markdownFiles \in {<<d>> : d \in LiveDocs} \cup {<<d, e>> : d, e \in BuildDocs}
    /\ i = 1
    /\ errorCount = 0
    /\ html = <<>>
    /\ rendered = NULL
    /\ pc = "compile"
    /\ nextInlineID = 0
    /\ sectionCount = 0
    /\ ast = <<>>
    /\ walker = NewWalker
    /\ prevNode = 0
    /\ actionLog = <<>>
    /\ errorLog = <<>>

\* The program has stopped: process.exit(1), or index.html is written
Stopped == pc \in {"exit", "done"}

\* The compiler is one synchronous program: it takes its next step whenever
\* it has one.  This is weak fairness of Next, written out: Next is enabled
\* exactly in the states where the program has not stopped.
Fairness == []<>Stopped \/ []<><<Next>>_vars

LiveSpec == LiveInit /\ [][Next]_vars /\ Fairness

----------------------------------------------------------------------------
(* Vocabulary of the properties *)

\* The event the next iteration of the current traversal handles
Event == WalkerNext(ast, walker)

TextKinds == {"text", "code", "code_block"}

Sigils == {"@", "#", "$"}

\* The macro traversal is about to scan a text, code or code_block leaf
ScansLeaf == pc = "rewrite" /\ Event.node # 0 /\ ast[Event.node].type \in TextKinds

\* The macro traversal is about to handle a link or image event
HandlesLink == pc = "rewrite" /\ Event.node # 0 /\ ast[Event.node].type = "link"
HandlesImage == pc = "rewrite" /\ Event.node # 0 /\ ast[Event.node].type = "image"

\* The step taken failed the file with this error
FailsWith(kind) ==
    /\ pc' = "returned"
    /\ rendered' = NULL
    /\ errorLog' = Append(errorLog, [file |-> i, kind |-> kind])

\* The character at 0-based index k is escaped: it follows a backslash that
\* is not itself escaped
RECURSIVE IsEscaped(_, _)
IsEscaped(str, k) == k > 0 /\ str[k] = "\\" /\ ~IsEscaped(str, k - 1)

\* Brace matching that ignores escaped characters: the index of the unescaped
\* "}" that closes the brace opened before index j, or -1
RECURSIVE MatchingBrace(_, _, _)
MatchingBrace(str, j, depth) ==
    IF j >= Len(str) THEN -1
    ELSE IF str[j + 1] = "\\" THEN MatchingBrace(str, j + 2, depth)
    ELSE IF str[j + 1] = "{" THEN MatchingBrace(str, j + 1, depth + 1)
    ELSE IF str[j + 1] = "}"
         THEN IF depth = 1 THEN j ELSE MatchingBrace(str, j + 1, depth - 1)
    ELSE MatchingBrace(str, j + 1, depth)

\* The values an attribute takes in a piece of markup: the tokens between
\* each occurrence of its opening tokens and the next closing quote
ValueFrom(markup, k) ==
    LET close == CHOOSE m \in k..Len(markup) :
                     markup[m] = "\"" /\ \A n \in k..(m - 1) : markup[n] # "\""
    IN SubSeq(markup, k, close - 1)

AttrValues(markup, open) ==
    { ValueFrom(markup, k + Len(open)) :
        k \in {k \in 1..(Len(markup) - Len(open)) : SubSeq(markup, k, k + Len(open) - 1) = open} }

DataValues(markup, attr) == AttrValues(markup, <<" data-", attr, "=\"">>)

----------------------------------------------------------------------------
(* C1 *)

\* C1: in RenderText an escaped brace never opens and never terminates a
\* macro scan: the brace the scan opens at is not escaped, and the brace it
\* ends at is the one that matches when escaped characters are ignored.
C1_EscapedBraceNeverScanned ==
    ScansLeaf =>
        LET literal == ast[Event.node].literal
            start   == ScanOpen(literal, 0)
        IN start # -1 =>
               /\ ~IsEscaped(literal, start)
               /\ ScanClose(literal, start + 1, 1) = MatchingBrace(literal, start + 1, 1)

----------------------------------------------------------------------------
(* C2 *)

\* The section-begin macro at [start, close] of the leaf is the sole content
\* of a paragraph that is a direct child of the document
SoleContentOfTopLevelParagraph(t, node, start, close) ==
    /\ start = 0
    /\ close + 1 = Len(t[node].literal)
    /\ t[node].parent # 0
    /\ t[t[node].parent].children = <<node>>
    /\ t[t[node].parent].type = "paragraph"
    /\ t[t[node].parent].parent = 1

\* The leaf about to be scanned yields a section-begin token
ScansSectionBegin ==
    /\ ScansLeaf
    /\ LET literal == ast[Event.node].literal
           start   == ScanOpen(literal, 0)
       IN /\ start # -1
          /\ ScanClose(literal, start + 1, 1) # -1
          /\ CharAt(literal, start + 1) = "{"

\* C2: a section-begin macro that is not the sole content of a top-level
\* paragraph fails the file with InvalidSectionPlacement.
C2_SectionOnlyAsSoleContent ==
    [][ScansSectionBegin =>
           LET literal == ast[Event.node].literal
               start   == ScanOpen(literal, 0)
               close   == ScanClose(literal, start + 1, 1)
           IN ~SoleContentOfTopLevelParagraph(ast, Event.node, start, close)
                  => FailsWith("InvalidSectionPlacement")]_vars

----------------------------------------------------------------------------
(* C3 *)

\* Some unescaped "{" of the string has no matching "}"
HasUnterminatedBrace(str) ==
    \E k \in 0..(Len(str) - 1) :
        /\ str[k + 1] = "{"
        /\ ~IsEscaped(str, k)
        /\ MatchingBrace(str, k + 1, 1) = -1

\* The tree holds an unterminated macro in a leaf or in a destination
HasUnterminatedMacro(t) ==
    \E n \in 1..Len(t) :
        \/ t[n].type \in TextKinds /\ HasUnterminatedBrace(t[n].literal)
        \/ /\ t[n].type \in {"link", "image"}
           /\ LET url == DecodeBraces(t[n].destination)
              IN CharAt(url, 0) = "{" /\ CharAt(url, Len(url) - 1) # "}"

\* No two adjacent siblings of the tree are text: consolidation changes nothing
IsConsolidated(t) ==
    \A n \in 1..Len(t) : \A k \in 1..(Len(t[n].children) - 1) :
        ~(t[t[n].children[k]].type = "text" /\ t[t[n].children[k + 1]].type = "text")

\* C3: RenderFile returns null for every file that holds an unterminated macro.
C3_UnterminatedMacroFailsFile ==
    (pc = "returned" /\ IsConsolidated(markdownFiles[i])
        /\ HasUnterminatedMacro(markdownFiles[i]))
        => rendered = NULL

----------------------------------------------------------------------------
(* C4 *)

\* The files LogAction has reported as rendered, in order
RenderedFiles == SelectSeq(actionLog, LAMBDA e : e[1] = "render")

\* File k failed: LogParseError reported an error for it
Failed(k) == \E n \in 1..Len(errorLog) : errorLog[n].file = k

\* The files whose loop body has completed
Collected == 1..(i - 1)

\* C4: a failing file never stops the batch.  Every target up to the current
\* one has been rendered, in order; errorCount counts the failed files, html
\* holds exactly the others; and after the last file the build exits when
\* errorCount > 0, before anything is imported, copied or written, and goes
\* on when errorCount = 0.
C4_FailingFileNeverStopsBatch ==
    /\ RenderedFiles =
           [k \in 1..(IF pc \in {"consolidate", "rewrite", "returned"} THEN i ELSE i - 1)
               |-> <<"render", ToString(k)>>]
    /\ errorCount = Cardinality({k \in Collected : Failed(k)})
    /\ Len(html) = Cardinality({k \in Collected : ~Failed(k)})
    /\ \A n \in 1..Len(html) :
           /\ html[n].file \in Collected /\ ~Failed(html[n].file)
           /\ \A m \in 1..(n - 1) : html[m].file < html[n].file
    /\ (pc = "returned" /\ rendered = NULL) => Failed(i)
    /\ pc = "exit" =>
           /\ i = Len(markdownFiles) + 1
           /\ errorCount > 0
           /\ RenderedFiles = actionLog
    /\ pc \in {"assets", "output", "done"} =>
           /\ i = Len(markdownFiles) + 1
           /\ errorCount = 0
    /\ (pc = "compile" /\ i > Len(markdownFiles)) =>
           (ENABLED Exit <=> errorCount > 0) /\ (ENABLED Import <=> errorCount = 0)
    /\ (pc = "compile" /\ i <= Len(markdownFiles)) => ENABLED BeginFile

\* A build whose first file failed has rendered its second file and exits
C4_Witness ==
    /\ pc = "exit"
    /\ Len(markdownFiles) = 2
    /\ Failed(1)
    /\ Len(html) = 1 /\ html[1].file = 2

----------------------------------------------------------------------------
(* C5 *)

\* The N of every "_inline-N" in a piece of markup
InlineIdsIn(markup) ==
    {markup[k + 1] : k \in {k \in 1..(Len(markup) - 1) : markup[k] = "_inline-"}}

\* The ids in the nodes of a tree, and in the html accumulated so far
InlineIdsOfTree(t) == UNION {InlineIdsIn(t[n].literal) : n \in 1..Len(t)}
InlineIdsOfHtml == UNION {InlineIdsIn(html[n].rendered) : n \in 1..Len(html)}

\* C5: inline-link ids are unique within one build.  Every id in the tree or
\* in the html was issued below the counter; a step never lowers the counter;
\* each id a step emits is the counter's value, and the counter moves past
\* it; sectionCount is 0 when the macro traversal of a file starts.
C5_InlineIdsStrictlyIncrease ==
    [][/\ \A s \in InlineIdsOfTree(ast) \cup InlineIdsOfHtml :
              \E n \in 0..(nextInlineID - 1) : s = ToString(n)
       /\ nextInlineID' >= nextInlineID
       /\ pc = "rewrite" =>
              LET emitted == InlineIdsOfTree(ast') \ InlineIdsOfTree(ast)
              IN /\ emitted # {} => emitted = {ToString(nextInlineID)}
                 /\ nextInlineID' = nextInlineID + Cardinality(emitted)
       /\ (pc # "rewrite" /\ pc' = "rewrite") => sectionCount' = 0
      ]_vars

\* A file that issued an id failed, and a later file was given greater ids
C5_Witness ==
    /\ pc = "exit"
    /\ Len(markdownFiles) = 2
    /\ Failed(1)
    /\ nextInlineID = 3
    /\ InlineIdsOfHtml = {"1", "2"}

----------------------------------------------------------------------------
(* Links and images as the properties read them *)

\* The destination of the link or image about to be handled, braces decoded
Url == DecodeBraces(ast[Event.node].destination)

\* The text between the braces of a macro destination
Body(url) == SubSeq(url, 2, Len(url) - 1)

IsMacroUrl(url) == Len(url) >= 2 /\ url[1] = "{" /\ url[Len(url)] = "}"

\* The index of the first ":" of a string, or its length + 1
FirstColon(str) ==
    IF \E k \in 1..Len(str) : str[k] = ":"
    THEN CHOOSE k \in 1..Len(str) : str[k] = ":" /\ \A m \in 1..(k - 1) : str[m] # ":"
    ELSE Len(str) + 1

\* The identifier of a macro body (sigil included), and its name
Identifier(body) == SubSeq(body, 1, FirstColon(body) - 1)
NameOf(body) == SubSeq(body, 2, FirstColon(body) - 1)

\* The body carries the modifier "inline"
IsInlineBody(body) ==
    LET c == FirstColon(body)
    IN /\ c + 1 <= Len(body)
       /\ body[c + 1] = "inline"
       /\ (c + 1 = Len(body) \/ body[c + 2] = ":")

\* After the step, the node standing where the handled node stood
Replacement ==
    LET p == ast[Event.node].parent
    IN ast'[ast'[p].children[IndexOf(ast[p].children, Event.node)]]

\* The step left the tree, the counters and the position in the file alone
NothingChanged == UNCHANGED <<ast, nextInlineID, sectionCount, pc, rendered, errorLog>>

\* The alt text RenderImage captures from the image about to be handled
CapturedAlt ==
    LET first == FirstChild(ast, Event.node)
    IN IF first # 0 /\ ast[first].type = "text" THEN ast[first].literal ELSE <<>>

----------------------------------------------------------------------------
(* C6 *)

\* The link about to be left has a destination {<sigil><name>:inline}
LeavesInlineLink ==
    /\ HandlesLink /\ ~Event.entering
    /\ IsMacroUrl(Url)
    /\ IsInlineBody(Body(Url))
    /\ Len(Identifier(Body(Url))) >= 1
    /\ Identifier(Body(Url))[1] \in Sigils

\* C6 as claimed: data-replace-with is the bare name, without the sigil.
C6_ReplaceWithBareName ==
    [][LeavesInlineLink =>
           /\ Replacement.type = "html_inline"
           /\ DataValues(Replacement.literal, "replace-with") = {NameOf(Body(Url))}
           /\ AttrValues(Replacement.literal, <<" id=\"">>)
                  = {<<"_inline-", ToString(nextInlineID)>>}
      ]_vars

\* C6 amended: a link with destination {<sigil><name>:inline} compiles to an
\* anchor whose data-replace-with value is the identifier with its sigil
\* (#bar), without the braces and the modifier, and with id="_inline-N".
C6_ReplaceWithIdentifier ==
    [][LeavesInlineLink =>
           /\ Replacement.type = "html_inline"
           /\ Replacement.literal[1] = "<a"
           /\ DataValues(Replacement.literal, "replace-with") = {Identifier(Body(Url))}
           /\ AttrValues(Replacement.literal, <<" id=\"">>)
                  = {<<"_inline-", ToString(nextInlineID)>>}
      ]_vars

\* An anchor for {#bc:inline} is in the tree
C6_Witness ==
    \E n \in 1..Len(ast) :
        /\ ast[n].type = "html_inline" /\ ast[n].parent # 0
        /\ DataValues(ast[n].literal, "replace-with") = {<<"#", "b", "c">>}
        /\ AttrValues(ast[n].literal, <<" id=\"">>) = {<<"_inline-", "0">>}

----------------------------------------------------------------------------
(* C7 *)

\* The anchor that replaced the link carries this attribute and no id
AnchorWith(attr, value) ==
    /\ Replacement.type = "html_inline"
    /\ Replacement.literal[1] = "<a"
    /\ DataValues(Replacement.literal, attr) = {value}
    /\ AttrValues(Replacement.literal, <<" id=\"">>) = {}
    /\ pc' = pc

\* C7: RenderLink's non-inline dispatch.  Entering a link changes nothing; on
\* leaving it, a destination that does not start with "{" leaves the node
\* untouched, {@id} gives data-goto-section="id" and {#id} gives
\* data-call-function="id", both without an id attribute, {$id} fails with
\* InvalidLinkMacro and any other leading character with UnrecognizedMacro;
\* the inline-id counter is not advanced in any of these cases.
C7_NonInlineDispatch ==
    [][HandlesLink =>
           IF Event.entering THEN NothingChanged
           ELSE IF CharAt(Url, 0) # "{" THEN NothingChanged
           ELSE (IsMacroUrl(Url) /\ ~IsInlineBody(Body(Url))) =>
                    /\ nextInlineID' = nextInlineID
                    /\ CASE CharAt(Identifier(Body(Url)), 0) = "@" ->
                                AnchorWith("goto-section", NameOf(Body(Url)))
                         [] CharAt(Identifier(Body(Url)), 0) = "#" ->
                                AnchorWith("call-function", NameOf(Body(Url)))
                         [] CharAt(Identifier(Body(Url)), 0) = "$" ->
                                FailsWith("InvalidLinkMacro")
                         [] OTHER -> FailsWith("UnrecognizedMacro")
      ]_vars

\* A file with a {@b} link between two texts has been rendered
C7_Witness ==
    /\ pc = "returned"
    /\ rendered # NULL
    /\ \E n \in 1..Len(ast) :
           /\ ast[n].type = "html_inline" /\ ast[n].parent # 0
           /\ DataValues(ast[n].literal, "goto-section") = {<<"b">>}
           /\ AttrValues(ast[n].literal, <<" id=\"">>) = {}
           /\ PrevSibling(ast, n) # 0 /\ NextSibling(ast, n) # 0

----------------------------------------------------------------------------
(* C8 *)

\* The image about to be handled has a destination {#name} or {$name}
HandlesMacroImage ==
    /\ HandlesImage
    /\ IsMacroUrl(Url)
    /\ CharAt(Url, 1) \in {"#", "$"}

\* The <img> that replaced the image: its placeholder src, its alt and title
MacroImgWith(value) ==
    /\ Replacement.type = "html_inline"
    /\ Replacement.literal[1] = "<img"
    /\ DataValues(Replacement.literal, "image-source-macro") = {value}
    /\ AttrValues(Replacement.literal, <<" src=\"">>) = {<<"#">>}
    /\ AttrValues(Replacement.literal, <<" alt=\"">>) = {CapturedAlt}
    /\ AttrValues(Replacement.literal, <<" title=\"">>) = {CapturedAlt}

\* C8 as claimed: data-image-source-macro is the identifier without braces
\* and without the sigil.
C8_ImageSourceBareName ==
    [][HandlesMacroImage => MacroImgWith(SubSeq(Url, 3, Len(Url) - 1))]_vars

\* C8 amended: an image with destination {#bar} (or {$bar}) compiles to an
\* <img> whose data-image-source-macro value is the identifier without the
\* braces and with its sigil (#bar), with src="#" and alt and title both
\* equal to the captured alt text.
C8_ImageSourceIdentifier ==
    [][HandlesMacroImage => MacroImgWith(SubSeq(Url, 2, Len(Url) - 1))]_vars

\* An <img> for {$bc} with a non-empty alt text is in the tree
C8_Witness ==
    \E n \in 1..Len(ast) :
        /\ ast[n].type = "html_inline" /\ ast[n].parent # 0
        /\ DataValues(ast[n].literal, "image-source-macro") = {<<"$", "b", "c">>}
        /\ AttrValues(ast[n].literal, <<" alt=\"">>) = {<<"a">>}

----------------------------------------------------------------------------
(* C9 *)

\* The image stays where it is and no node is added to the tree
ImageStays ==
    /\ Len(ast') = Len(ast)
    /\ ast'[ast[Event.node].parent] = ast[ast[Event.node].parent]
    /\ ast'[Event.node].parent = ast[Event.node].parent

\* The only change to the tree is that the text child captured as alt, if
\* any, has been unlinked from the image
OnlyAltUnlinked ==
    LET first  == FirstChild(ast, Event.node)
        hasAlt == first # 0 /\ ast[first].type = "text"
    IN /\ ImageStays
       /\ \A n \in 1..Len(ast) : n \notin {Event.node, first} => ast'[n] = ast[n]
       /\ IF hasAlt
          THEN /\ ast'[Event.node] = [ast[Event.node] EXCEPT !.children = Tail(@)]
               /\ ast'[first] = [ast[first] EXCEPT !.parent = 0]
          ELSE ast' = ast

\* The image was replaced by a plain <img> whose title equals its alt
PlainImg ==
    /\ pc' = pc
    /\ Replacement.type = "html_inline"
    /\ Replacement.literal[1] = "<img"
    /\ AttrValues(Replacement.literal, <<" src=\"">>) = {Url}
    /\ AttrValues(Replacement.literal, <<" alt=\"">>) = {CapturedAlt}
    /\ AttrValues(Replacement.literal, <<" title=\"">>) = {CapturedAlt}
    /\ ast'[Event.node].parent = 0

\* C9 as claimed: {@id} fails with SectionAsImageSource, a destination that
\* starts with "{" and has another second character fails with UnknownMacro,
\* and RenderImage changes nothing when it rejects.
C9_RejectedImageUnchanged ==
    [][HandlesImage =>
           /\ (IsMacroUrl(Url) /\ CharAt(Url, 1) = "@") =>
                  FailsWith("SectionAsImageSource") /\ ast' = ast
           /\ (CharAt(Url, 0) = "{" /\ CharAt(Url, 1) \notin Sigils) =>
                  FailsWith("UnknownMacro") /\ ast' = ast
           /\ CharAt(Url, 0) # "{" => PlainImg
      ]_vars

\* C9 amended: {@id} fails with SectionAsImageSource, and a destination that
\* starts with "{", ends with "}" and has a second character other than @, #
\* and $ fails with UnknownMacro; in both cases no <img> node is inserted and
\* the image node stays in the tree, the only change being that the text
\* child captured as alt has been unlinked; a destination that does not
\* start with "{" always succeeds and is replaced by a plain <img> whose
\* title equals its alt.
C9_RejectedImageStays ==
    [][HandlesImage =>
           /\ (IsMacroUrl(Url) /\ CharAt(Url, 1) = "@") =>
                  FailsWith("SectionAsImageSource") /\ OnlyAltUnlinked
           /\ (IsMacroUrl(Url) /\ CharAt(Url, 1) \notin Sigils) =>
                  FailsWith("UnknownMacro") /\ OnlyAltUnlinked
           /\ CharAt(Url, 0) # "{" => PlainImg
      ]_vars

\* An image {@bc} with an alt text was rejected: it is still in its
\* paragraph, without its alt child
C9_Witness ==
    /\ pc = "returned"
    /\ errorLog # <<>>
    /\ errorLog[Len(errorLog)].kind = "SectionAsImageSource"
    /\ \E n \in 1..Len(ast) :
           /\ ast[n].type = "image" /\ ast[n].parent # 0
           /\ ast[n].children = <<>>
           /\ markdownFiles[i][n].children # <<>>

----------------------------------------------------------------------------
(* C10 *)

\* The leaf about to be scanned yields a section, function or variable
\* reference: RenderText calls InsertHtmlIntoNode
ScansReference ==
    /\ ScansLeaf
    /\ LET literal == ast[Event.node].literal
           start   == ScanOpen(literal, 0)
       IN /\ start # -1
          /\ ScanClose(literal, start + 1, 1) # -1
          /\ CharAt(literal, start + 1) \in Sigils

\* The kinds and literals of a sequence of nodes
Shown(t, nodes) ==
    [k \in 1..Len(nodes) |-> [type |-> t[nodes[k]].type, literal |-> t[nodes[k]].literal]]

\* The markup expected for a macro spliced out of a leaf of a kind
ExpectedSpan(kind, value) ==
    LET span == <<"<span", " data-", "expand-macro", "=\"">> \o value \o <<"\"", "></span>">>
    IN IF kind = "code" THEN <<"<code>">> \o span \o <<"</code>">>
       ELSE IF kind = "code_block" THEN <<"<pre><code>">> \o span \o <<"</code></pre>">>
       ELSE span

\* C10: splicing one macro out of a leaf preserves the surrounding text.
\* For a leaf with literal L and a reference token at [s, e), the tree
\* InsertHtmlIntoNode returns holds at the leaf's former position a leaf with
\* L[0,s) (absent when s = 0), the html node whose data-expand-macro is
\* L[s+1,e-1], wrapped for the leaf's kind, and a leaf of the same kind with
\* L[e..] (absent when empty); the other siblings keep their order; and this
\* is the tree the step leaves, but for the literal of the original leaf.
C10_SplicePreservesText ==
    [][ScansReference =>
           LET node     == Event.node
               L        == ast[node].literal
               kind     == ast[node].type
               s        == ScanOpen(L, 0)
               e        == ScanClose(L, s + 1, 1) + 1
               p        == ast[node].parent
               before   == ast[p].children
               k        == IndexOf(before, node)
               macro    == SubSeq(L, s + 1, e)
               r        == InsertHtmlIntoNode(ast, node, s, s + Len(macro), "expand-macro",
                                              ExpandMacroValue(macro))
               after    == r.ast[p].children
               expected ==
                   (IF s > 0 THEN <<[type |-> kind, literal |-> SubSeq(L, 1, s)]>> ELSE <<>>)
                   \o <<[type |-> "html_inline",
                         literal |-> ExpectedSpan(kind, SubSeq(L, s + 2, e - 1))]>>
                   \o (IF e < Len(L)
                       THEN <<[type |-> kind, literal |-> SubSeq(L, e + 1, Len(L))]>>
                       ELSE <<>>)
           IN /\ Len(after) = Len(before) - 1 + Len(expected)
              /\ SubSeq(after, 1, k - 1) = SubSeq(before, 1, k - 1)
              /\ Shown(r.ast, SubSeq(after, k, k + Len(expected) - 1)) = expected
              /\ SubSeq(after, k + Len(expected), Len(after))
                     = SubSeq(before, k + 1, Len(before))
              /\ \A n \in 1..Len(after) : r.ast[after[n]].parent = p
              /\ r.ast[r.htmlNode].type = "html_inline"
              /\ Len(ast') = Len(r.ast)
              /\ \A n \in 1..Len(ast') : n # node => ast'[n] = r.ast[n]
              /\ ast'[p].children = after
      ]_vars

\* A macro has been spliced out of the middle of a text leaf: the walker is
\* at the html node, between the leaf with the text before the macro and the
\* new leaf with the text after it
C10_Witness ==
    /\ pc = "rewrite"
    /\ walker.current # 0
    /\ ast[walker.current].type = "html_inline"
    /\ DataValues(ast[walker.current].literal, "expand-macro") = {<<"$", "x">>}
    /\ PrevSibling(ast, walker.current) # 0
    /\ ast[PrevSibling(ast, walker.current)].literal = <<"a">>
    /\ NextSibling(ast, walker.current) # 0
    /\ ast[NextSibling(ast, walker.current)].type = "text"
    /\ ast[NextSibling(ast, walker.current)].literal = <<"}">>

----------------------------------------------------------------------------
(* C11 *)

\* The positions of the section tags in a piece of markup
OpeningTags(markup) == {k \in 1..Len(markup) : markup[k] = "<div id=\""}
ClosingTags(markup) == {k \in 1..Len(markup) : markup[k] \in {"</div>\n", "</div>"}}

\* RenderFile has returned the markup of a file
Compiled == pc = "returned" /\ rendered # NULL

\* C11: section containers are balanced in every successfully compiled file.
\* With n >= 0 accepted section declarations the output has n opening section
\* tags and n closing tags, a closing tag immediately precedes every opening
\* tag but the first, and the output ends with the closing tag of the last
\* section.
C11_SectionTagsBalanced ==
    Compiled =>
        LET opens  == OpeningTags(rendered)
            closes == ClosingTags(rendered)
        IN /\ Cardinality(opens) = sectionCount
           /\ Cardinality(closes) = sectionCount
           /\ \A k \in opens :
                  IF \E m \in opens : m < k
                  THEN (k - 1) \in closes
                  ELSE (k - 1) \notin closes
           /\ sectionCount > 0 => Len(rendered) \in closes

----------------------------------------------------------------------------
(* C12 *)

\* The nodes of a tree that are still attached to the document
RECURSIVE Attached(_, _)
Attached(t, n) == n = 1 \/ (t[n].parent # 0 /\ Attached(t, t[n].parent))

\* C12: after a file compiles successfully no escape backslash survives in
\* its output: no literal of the final tree, be it a text, code or code_block
\* leaf or the markup the compiler emitted with the values it copied from
\* literals, holds a backslash, and so the rendered markup holds none.
C12_NoBackslashSurvives ==
    Compiled =>
        /\ \A n \in 1..Len(ast) :
               Attached(ast, n) => \A k \in 1..Len(ast[n].literal) : ast[n].literal[k] # "\\"
        /\ \A k \in 1..Len(rendered) : rendered[k] # "\\"

----------------------------------------------------------------------------
(* C13 *)

\* A string with every escape sequence \X replaced by the character X
RECURSIVE Unescape(_)
Unescape(str) ==
    IF str = <<>> THEN <<>>
    ELSE IF Head(str) = "\\" /\ Len(str) >= 2
         THEN <<str[2]>> \o Unescape(SubSeq(str, 3, Len(str)))
         ELSE <<Head(str)>> \o Unescape(Tail(str))

\* Every backslash of the string escapes a character: the string does not
\* end in a backslash that is not itself escaped
EscapesComplete(str) == str = <<>> \/ ~IsEscaped(str, Len(str))

\* The part of the scanned leaf's literal that stays in the leaf: all of it
\* when no macro opens in it, else the text in front of the macro
KeptText ==
    LET literal == ast[Event.node].literal
        start   == ScanOpen(literal, 0)
    IN IF start = -1 THEN literal ELSE SubSeq(literal, 1, start)

\* The scanned leaf is left in place: no macro opens in it, or a reference
\* is spliced out of it
LeafIsKept == ScansLeaf /\ (ScanOpen(ast[Event.node].literal, 0) = -1 \/ ScansReference)

\* C13: an escape sequence \X in a scanned literal yields exactly the
\* character X, for every X, "\\" and the braces included: the text a visit
\* leaves in the leaf is its text with each \X replaced by X.
C13_EscapeYieldsCharacter ==
    [][(LeafIsKept /\ EscapesComplete(KeptText)) =>
           ast'[Event.node].literal = Unescape(KeptText)]_vars

----------------------------------------------------------------------------
(* C14 *)

\* The 1-based index of the first "{" of a string, or 0
FirstBrace(str) ==
    IF \E k \in 1..Len(str) : str[k] = "{"
    THEN CHOOSE k \in 1..Len(str) : str[k] = "{" /\ \A m \in 1..(k - 1) : str[m] # "{"
    ELSE 0

\* The 1-based index at which the depth of the span opened at s first
\* returns to zero, or 0
SpanEnd(str, s) == MatchingBrace(str, s, 1) + 1

\* The string is escape-free and consists of text and balanced top-level
\* {...} spans, each of them a macro with a valid sigil (so none a section)
RECURSIVE WellFormedMacros(_)
WellFormedMacros(str) ==
    /\ \A k \in 1..Len(str) : str[k] # "\\"
    /\ LET s == FirstBrace(str) IN
       IF s = 0 THEN \A k \in 1..Len(str) : str[k] # "}"
       ELSE /\ \A k \in 1..(s - 1) : str[k] # "}"
            /\ SpanEnd(str, s) # 0
            /\ CharAt(str, s) \in Sigils
            /\ WellFormedMacros(SubSeq(str, SpanEnd(str, s) + 1, Len(str)))

\* What a leaf of a kind with a well-formed literal is to become: the text
\* fragments and, for each top-level span in source order, one expand-macro
\* node; empty fragments around a span are absent
RECURSIVE Expansion(_, _)
Expansion(kind, str) ==
    LET s == FirstBrace(str)
        e == SpanEnd(str, s)
    IN IF s = 0 THEN <<[type |-> kind, literal |-> str]>>
       ELSE (IF s > 1 THEN <<[type |-> kind, literal |-> SubSeq(str, 1, s - 1)]>> ELSE <<>>)
            \o <<[type |-> "html_inline",
                  literal |-> ExpectedSpan(kind, SubSeq(str, s + 1, e - 1))]>>
            \o (IF e < Len(str) THEN Expansion(kind, SubSeq(str, e + 1, Len(str))) ELSE <<>>)

\* The sequence holds the block as a run of consecutive elements
HasBlock(seq, block) ==
    \E off \in 0..(Len(seq) - Len(block)) :
        SubSeq(seq, off + 1, off + Len(block)) = block

\* The leaves of the file being compiled that hold well-formed macros
MacroLeaves ==
    {n \in 1..Len(markdownFiles[i]) :
        /\ markdownFiles[i][n].type \in TextKinds
        /\ FirstBrace(markdownFiles[i][n].literal) # 0
        /\ WellFormedMacros(markdownFiles[i][n].literal)}

\* C14: mutating the tree during the macro traversal neither skips nor
\* revisits work.  Once the traversal of a file has finished, every leaf
\* whose literal holds k balanced, escape-free, non-section macros with valid
\* sigils has become, among the children of its parent, its text fragments
\* and exactly k expand-macro nodes, one per top-level span, in source order;
\* and an html node the traversal comes to is never scanned or rewritten.
C14_NoWorkSkippedOrRevisited ==
    [][/\ (Compiled /\ IsConsolidated(markdownFiles[i])) =>
              \A n \in MacroLeaves :
                  LET leaf == markdownFiles[i][n]
                  IN HasBlock(Shown(ast, ast[leaf.parent].children),
                              Expansion(leaf.type, leaf.literal))
       /\ (pc = "rewrite" /\ Event.node # 0 /\ ast[Event.node].type = "html_inline") =>
              /\ ast' = ast
              /\ walker' = Event.walker
              /\ pc' = pc
      ]_vars

----------------------------------------------------------------------------
(* C15 *)

\* The text leaf follows a text sibling: it belongs to a run it does not start
IsMergedAway(t, n) ==
    /\ t[n].type = "text"
    /\ PrevSibling(t, n) # 0
    /\ t[PrevSibling(t, n)].type = "text"

\* The literals of the run of adjacent text siblings from n on, concatenated
RECURSIVE RunConcat(_, _)
RunConcat(t, n) ==
    t[n].literal
    \o (IF NextSibling(t, n) # 0 /\ t[NextSibling(t, n)].type = "text"
        THEN RunConcat(t, NextSibling(t, n))
        ELSE <<>>)

\* The tree with every maximal run of adjacent text siblings merged into the
\* run's first leaf, the other leaves of the run unlinked, all else as it was
Normalized(t) ==
    [n \in 1..Len(t) |->
        IF IsMergedAway(t, n) THEN [t[n] EXCEPT !.parent = 0]
        ELSE IF t[n].type = "text" THEN [t[n] EXCEPT !.literal = RunConcat(t, n)]
        ELSE [t[n] EXCEPT !.children = SelectSeq(@, LAMBDA c : ~IsMergedAway(t, c))]]

\* The consolidation walk of the current file has reached the end of the tree
ConsolidationDone == pc = "consolidate" /\ Event.node = 0

\* C15: the consolidation pass of RenderFile merges every maximal run of
\* adjacent sibling text leaves into the run's first leaf.  When the walk
\* ends no two adjacent siblings are both text, each surviving text literal
\* is the left-to-right concatenation of its run, leaves separated by another
\* node or under different parents are not merged, every other node and the
\* container structure are unchanged, and no leaf of a run was skipped.
C15_ConsolidationMergesRuns ==
    ConsolidationDone =>
        /\ ast = Normalized(markdownFiles[i])
        /\ IsConsolidated(ast)

\* A run of three fragments "{", "@b", "}" has been merged into one leaf,
\* while the two texts after the code leaf formed a run of their own
C15_Witness ==
    /\ ConsolidationDone
    /\ Len(ast) = 10
    /\ ast[3].literal = <<"{", "@", "b", "}">>
    /\ ast[4].parent = 0 /\ ast[5].parent = 0
    /\ ast[6].type = "code"
    /\ ast[7].literal = <<"a", "}">>
    /\ ast[2].children = <<3, 6, 7>>

----------------------------------------------------------------------------
(* C16 *)

\* What is left of the walk of a tree from a walker position: one for each
\* event the walker is still to return, plus the length of the literal of
\* each text, code or code_block leaf among them
RECURSIVE WorkLeft(_, _)
WorkLeft(t, w) ==
    LET ev == WalkerNext(t, w)
    IN IF ev.node = 0 THEN 0
       ELSE 1 + (IF t[ev.node].type \in TextKinds THEN Len(t[ev.node].literal) ELSE 0)
              + WorkLeft(t, ev.walker)

\* The leaf the walker is resumed in front of after a splice, if any
RemainderLeaf ==
    IF walker'.current # 0 /\ NextSibling(ast', walker'.current) # 0
       /\ NextSibling(ast', walker'.current) > Len(ast)
    THEN NextSibling(ast', walker'.current)
    ELSE 0

\* C16: the macro traversal of RenderFile terminates.  Every iteration either
\* fails the file or leaves strictly less work for the walker, although a
\* splice adds nodes to the tree: the remainder leaf a splice inserts is
\* strictly shorter than the leaf it was cut from; and so a traversal that
\* has started always comes to RenderFile's return.
C16_TraversalTerminates ==
    /\ [][pc = "rewrite" =>
              \/ pc' = "returned"
              \/ /\ pc' = "rewrite"
                 /\ WorkLeft(ast', walker') < WorkLeft(ast, walker)
                 /\ (ScansReference /\ RemainderLeaf # 0) =>
                        Len(ast'[RemainderLeaf].literal) < Len(ast[Event.node].literal)
         ]_vars
    /\ (pc = "rewrite" ~> pc = "returned")

\* A traversal that spliced three macros out of one leaf, each time resuming
\* in front of a new remainder leaf, has ended and the file is rendered
C16_Witness ==
    /\ Compiled
    /\ Len(markdownFiles[i]) = 3
    /\ Cardinality({n \in 1..Len(ast) :
                       ast[n].parent # 0 /\ DataValues(ast[n].literal, "expand-macro") # {}}) = 3

====
